---------------------------- MODULE Spec2Model ----------------------------
(***************************************************************************)
(* Model of the BLE power-control worker (BluetoothWorker) of              *)
(* src/xdjkgui.py and its older variant src/main.py.                       *)
(*                                                                         *)
(* Texts are sequences of one-character strings, byte strings are          *)
(* sequences of byte tokens (an ASCII character, or the token NonAscii     *)
(* for a byte >= 0x80), command bytes are sequences of integers 0..255.    *)
(* An optional value (Python's None or a value) is a sequence of length    *)
(* zero or one.                                                            *)
(***************************************************************************)
EXTENDS Integers, Sequences, FiniteSets, TLC

VARIABLES
    variant,         \* which program runs: "xdjkgui" or "main"
    mode,            \* BluetoothWorker.mode
    pc,              \* position of the worker thread inside run()
    device_address,  \* BluetoothWorker.device_address (optional)
    client,          \* state of the BleakClient connection: "closed" / "open"
    subscribed,      \* start_notify has completed on the open connection
    value,           \* bytes returned by read_gatt_char (optional)
    data,            \* parsed value list returned by read_characteristic (optional)
    info,            \* raw text returned by read_characteristic (optional)
    result,          \* text returned by get_data / init_data (optional)
    byte_array,      \* bytes decoded from result in connect_and_write
    slept,           \* time units of asyncio.sleep(2) that have elapsed
    notified,        \* number of notifications delivered to notification_handler
    escaped,         \* number of exceptions that left notification_handler
    scan_result,     \* outcome of BleakScanner.discover() inside scan_devices (optional)
    response,        \* outcome of the request of get_data / init_data (optional)
    notif_data,      \* bytes of the last notification given to the handler (optional)
    parsed_data,     \* slots filled by the handler for that notification (optional)
    uploading,       \* notification_handler is inside requests.post
    running,         \* QThread.isRunning() of the worker thread
    window,          \* MainWindow: its buttons, progress bar, status bar and worker
    events,          \* signals emitted by the worker, in order
    ops              \* BLE and HTTP operations the worker has invoked, in order

vars == <<variant, mode, pc, device_address, client, subscribed, value, data, info,
          result, byte_array, slept, notified, escaped, scan_result, response,
          notif_data, parsed_data, uploading, running, window, events, ops>>

-----------------------------------------------------------------------------
(* Bounds of the model *)

MaxSegs == 14        \* largest number of comma-separated segments in a read value
MaxDev == 2          \* most segments of a codec input that deviate from "k:<v>"
MaxReadDev == 1      \* most deviating segments of a value read during a run
MaxDevices == 2      \* most devices in a scan result
MaxNotifs == 1       \* most notifications delivered during a run
MaxNotifSegs == 52   \* largest number of segments in a notification payload
MaxNotifDev == 1     \* most deviating segments of a notification payload
MaxRuns == 2         \* most workers started from the window

-----------------------------------------------------------------------------
(* Program constants *)

FieldCount == 13     \* len(data_list) != 13
SettleWindow == 2    \* asyncio.sleep(2)
NotifMinLen == 40    \* len(raw_data) > 40
NotifSlots == 50     \* ["0000000000"] * 50
VersionSlot == 18    \* parsed_data[18]

-----------------------------------------------------------------------------
(* Python values *)

None == <<>>
Some(x) == <<x>>

\* Python truth value of an optional list or string: None, [] and "" are false.
Truthy(opt) == opt /= None /\ Len(opt[1]) > 0

NonAscii == "x80"

\* bytes.decode('ascii'): raises UnicodeDecodeError on any byte >= 0x80.
DecodeAscii(bytes) ==
    IF \E i \in 1..Len(bytes) : bytes[i] = NonAscii THEN None ELSE Some(bytes)

\* Index of the first occurrence of sep in s at or after i, 0 when there is none.
RECURSIVE FindFrom(_, _, _)
FindFrom(s, sep, i) ==
    IF i > Len(s) THEN 0
    ELSE IF s[i] = sep THEN i
    ELSE FindFrom(s, sep, i + 1)

Find(s, sep) == FindFrom(s, sep, 1)

\* str.split(sep): always at least one part; splits at every occurrence.
RECURSIVE Split(_, _)
Split(s, sep) ==
    LET i == Find(s, sep)
    IN  IF i = 0 THEN <<s>>
        ELSE <<SubSeq(s, 1, i-1)>> \o Split(SubSeq(s, i+1, Len(s)), sep)

RECURSIVE Join(_, _)
Join(parts, sep) ==
    IF Len(parts) = 0 THEN <<>>
    ELSE IF Len(parts) = 1 THEN parts[1]
    ELSE parts[1] \o <<sep>> \o Join(Tail(parts), sep)

-----------------------------------------------------------------------------
(* Signals emitted by the worker: log_signal, progress_signal and          *)
(* finished_signal.  A log message is named by an ASCII token; arg is the  *)
(* text its f-string interpolates.  main.py omits most log messages.       *)

LogEv(m, a) == [kind |-> "log", num |-> 0, ok |-> TRUE, msg |-> m, arg |-> a]
ProgressEv(n) == [kind |-> "progress", num |-> n, ok |-> TRUE, msg |-> "", arg |-> <<>>]
FinishedEv(b, m, a) == [kind |-> "finished", num |-> 0, ok |-> b, msg |-> m, arg |-> a]

\* A log line both programs emit.
Log(m, a) == <<LogEv(m, a)>>
\* A log line only src/xdjkgui.py emits.
GuiLog(v, m, a) == IF v = "xdjkgui" THEN <<LogEv(m, a)>> ELSE <<>>
\* finished_signal: (bool) in src/xdjkgui.py, (bool, str) in src/main.py.
Finished(v, b, m, a) ==
    IF v = "main" THEN <<FinishedEv(b, m, a)>> ELSE <<FinishedEv(b, "", <<>>)>>

-----------------------------------------------------------------------------
(* Telemetry decode: the body of read_characteristic after read_gatt_char  *)

\* The loop over data_list; result_ holds the values appended so far.
\* Returns the optional value list and the log lines emitted.
RECURSIVE ParseItemsPartial(_, _, _, _)
ParseItemsPartial(v, data_list, i, result_) ==
    IF i > Len(data_list) THEN [ret |-> Some(result_), logs |-> <<>>]
    ELSE LET item == data_list[i]
             key_value == Split(item, ":")
         IN  IF Len(key_value) = 2
             THEN ParseItemsPartial(v, data_list, i + 1, Append(result_, key_value[2]))
             ELSE [ret |-> Some(result_),
                   logs |-> GuiLog(v, "item_format_error", item)]

RECURSIVE ParseItemsFirstColon(_, _, _, _)
ParseItemsFirstColon(v, data_list, i, result_) ==
    IF i > Len(data_list) THEN [ret |-> Some(result_), logs |-> <<>>]
    ELSE LET item == data_list[i]
             c == Find(item, ":")
         IN  IF c > 0
             THEN ParseItemsFirstColon(v, data_list, i + 1,
                      Append(result_, SubSeq(item, c + 1, Len(item))))
             ELSE [ret |-> None, logs |-> GuiLog(v, "item_format_error", item)]

RECURSIVE ParseItemsKeys(_, _, _, _)
ParseItemsKeys(v, data_list, i, result_) ==
    IF i > Len(data_list) THEN [ret |-> Some(result_), logs |-> <<>>]
    ELSE LET item == data_list[i]
             key_value == Split(item, ":")
         IN  IF Len(key_value) = 2
             THEN ParseItemsKeys(v, data_list, i + 1, Append(result_, key_value[1]))
             ELSE [ret |-> None, logs |-> GuiLog(v, "item_format_error", item)]

RECURSIVE ParseItems(_, _, _, _)
ParseItems(v, data_list, i, result_) ==
    IF i > Len(data_list) THEN [ret |-> Some(result_), logs |-> <<>>]
    ELSE LET item == data_list[i]
             key_value == Split(item, ":")
         IN  IF Len(key_value) = 2
             THEN ParseItems(v, data_list, i + 1, Append(result_, key_value[2]))
             ELSE [ret |-> None, logs |-> GuiLog(v, "item_format_error", item)]

\* value.decode('ascii') ... return result, raw_data.  A UnicodeDecodeError
\* is caught by the except clause of read_characteristic.
ParseTelemetry(v, bytes) ==
    LET dec == DecodeAscii(bytes)
    IN  IF dec = None
        THEN [data |-> None, info |-> None,
              logs |-> GuiLog(v, "read_exception", <<"UnicodeDecodeError">>)]
        ELSE LET raw_data == dec[1]
                 data_list == Split(raw_data, ",")
             IN  IF Len(data_list) /= FieldCount
                 THEN [data |-> None, info |-> None,
                       logs |-> GuiLog(v, "data_format_error", <<>>)]
                 ELSE LET r == ParseItems(v, data_list, 1, <<>>)
                      IN  IF r.ret = None
                          THEN [data |-> None, info |-> None, logs |-> r.logs]
                          ELSE [data |-> r.ret, info |-> Some(raw_data), logs |-> r.logs]

-----------------------------------------------------------------------------
(* Values the characteristic can return to read_gatt_char *)

ValChars == <<"a", "b", "c", "d", "e", "f", "g", "h",
              "i", "j", "l", "m", "n", "o", "p", "q">>

ValChar(i) == ValChars[((i - 1) % Len(ValChars)) + 1]

Shapes == {"nocolon", "twocolon", "empty", "emptyval", "long", "nonascii"}

\* Segment i of a value: "k:<v>" unless the segment deviates.
Segment(i, shape) ==
    CASE shape = "plain"    -> <<"k", ":", ValChar(i)>>
      [] shape = "nocolon"  -> <<"k", ValChar(i)>>
      [] shape = "twocolon" -> <<"k", ":", ValChar(i), ":", "w">>
      [] shape = "empty"    -> <<>>
      [] shape = "emptyval" -> <<"k", ":">>
      [] shape = "long"     -> <<"k", "e", "y", ":", ValChar(i), "z">>
      [] shape = "nonascii" -> <<"k", ":", NonAscii>>
      [] shape = "longkey"  -> <<"k", "y", ":", ValChar(i)>>

\* The value with n segments whose deviating segments are DOMAIN dev.
ValueOf(n, dev) ==
    Join([i \in 1..n |-> IF i \in DOMAIN dev THEN Segment(i, dev[i])
                         ELSE Segment(i, "plain")], ",")

\* The choices of at most k deviating segments among the given positions.
Deviations(positions, k) ==
    UNION { [P -> Shapes] : P \in { Q \in SUBSET positions : Cardinality(Q) <= k } }

\* Segment counts: a single segment, and the counts around the expected one.
SegCounts == {1} \cup ((FieldCount - 1)..MaxSegs)

\* Inputs of the codec: any segments of a value with the expected count may
\* deviate, and any one segment of a value with another count.
RawValues ==
    { ValueOf(FieldCount, dev) : dev \in Deviations(1..FieldCount, MaxDev) }
    \cup { ValueOf(n, dev) : <<n, dev>> \in
             UNION { {n} \X Deviations(1..n, 1) : n \in SegCounts } }

\* Values read during a run: the first and the last segment may deviate.
ReadValues ==
    { ValueOf(n, dev) : <<n, dev>> \in
        UNION { {n} \X Deviations({1, n}, MaxReadDev) : n \in SegCounts } }

-----------------------------------------------------------------------------
(* Command decode: bytearray.fromhex(data) in connect_and_write *)

HexDigits == <<"0", "1", "2", "3", "4", "5", "6", "7", "8", "9",
               "A", "B", "C", "D", "E", "F">>
LowerHex == <<"a", "b", "c", "d", "e", "f">>

IsHex(c) == (\E i \in 1..16 : HexDigits[i] = c) \/ (\E i \in 1..6 : LowerHex[i] = c)

HexVal(c) ==
    IF \E i \in 1..16 : HexDigits[i] = c
    THEN (CHOOSE i \in 1..16 : HexDigits[i] = c) - 1
    ELSE (CHOOSE i \in 1..6 : LowerHex[i] = c) + 9

IsSpace(c) == c \in {" ", "\n"}

RECURSIVE FromHexSwapped(_, _)
FromHexSwapped(s, acc) ==
    IF Len(s) = 0 THEN Some(acc)
    ELSE IF IsSpace(s[1]) THEN FromHexSwapped(Tail(s), acc)
    ELSE IF Len(s) >= 2 /\ IsHex(s[1]) /\ IsHex(s[2])
         THEN FromHexSwapped(SubSeq(s, 3, Len(s)),
                             Append(acc, 16 * HexVal(s[2]) + HexVal(s[1])))
         ELSE None

\* fromhex reads two hex digits per byte and skips ASCII whitespace before
\* each pair; anything else raises ValueError (None here).
RECURSIVE FromHex(_, _)
FromHex(s, acc) ==
    IF Len(s) = 0 THEN Some(acc)
    ELSE IF IsSpace(s[1]) THEN FromHex(Tail(s), acc)
    ELSE IF Len(s) >= 2 /\ IsHex(s[1]) /\ IsHex(s[2])
         THEN FromHex(SubSeq(s, 3, Len(s)), Append(acc, 16 * HexVal(s[1]) + HexVal(s[2])))
         ELSE None

-----------------------------------------------------------------------------
(* Notification decode: the body of notification_handler *)

DefaultSlot == <<"0", "0", "0", "0", "0", "0", "0", "0", "0", "0">>

RECURSIVE FillSlotsKeys(_, _, _)
FillSlotsKeys(data_list, i, parsed_data_) ==
    IF i > Len(data_list) THEN Some(parsed_data_)
    ELSE LET key_value == Split(data_list[i], ":")
         IN  IF Len(key_value) > 1
             THEN IF i > NotifSlots THEN None
                  ELSE FillSlotsKeys(data_list, i + 1,
                                     [parsed_data_ EXCEPT ![i] = key_value[1]])
             ELSE FillSlotsKeys(data_list, i + 1, parsed_data_)

\* The enumerate loop; list index i is 0-based in the code, 1-based here.
\* parsed_data[i] = ... raises IndexError when i is beyond the last slot.
RECURSIVE FillSlots(_, _, _)
FillSlots(data_list, i, parsed_data_) ==
    IF i > Len(data_list) THEN Some(parsed_data_)
    ELSE LET key_value == Split(data_list[i], ":")
         IN  IF Len(key_value) > 1
             THEN IF i > NotifSlots THEN None
                  ELSE FillSlots(data_list, i + 1,
                                 [parsed_data_ EXCEPT ![i] = key_value[2]])
             ELSE FillSlots(data_list, i + 1, parsed_data_)

LongEnoughInclusive(raw_data) == Len(raw_data) >= NotifMinLen

\* Only a text longer than 40 characters is processed.
LongEnough(raw_data) == Len(raw_data) > NotifMinLen

\* What one call of the handler does: the log lines it emits, the slots it
\* filled (optional), the info it posts to apideviceinfo (optional), and
\* whether an exception leaves it.  upload_ok is the outcome of requests.post.
NotificationHandler(v, payload, upload_ok) ==
    LET dec == DecodeAscii(payload)
        failed == [logs |-> Log("parse_version_error", <<>>), parsed |-> None,
                   upload |-> None, raised |-> (v = "xdjkgui")]
    IN  IF dec = None THEN failed
        ELSE IF LongEnough(dec[1])
        THEN LET parsed == FillSlots(Split(dec[1], ","), 1,
                                     [i \in 1..NotifSlots |-> DefaultSlot])
             IN  IF parsed = None THEN failed
                 ELSE IF ~upload_ok
                 THEN [failed EXCEPT !.parsed = parsed,
                                     !.upload = Some(parsed[1][VersionSlot + 1])]
                 ELSE [logs |-> Log("device_version", parsed[1][VersionSlot + 1]),
                       parsed |-> parsed,
                       upload |-> Some(parsed[1][VersionSlot + 1]),
                       raised |-> FALSE]
        ELSE [logs |-> <<>>, parsed |-> None, upload |-> None, raised |-> FALSE]

-----------------------------------------------------------------------------
(* The environment: scan results, GATT profiles, HTTP responses *)

TargetName == "PWR-7734"
Modes == {"1", "2", "3"}
Variants == {"xdjkgui", "main"}

\* Advertised names; None is a device that advertises no name.
AdvertisedNames ==
    {Some(TargetName), Some("PWR-77"), Some("pwr-7734"), Some("PWR-7734 "), None}
Addresses == <<"addr1", "addr2", "addr3">>

\* BleakScanner.discover(): a list of devices, or an exception.
ScanResults ==
    UNION { [1..n -> AdvertisedNames] : n \in 0..MaxDevices }
ScanRaised == [raised |-> TRUE, devices |-> <<>>]
ScanOutcomes ==
    {ScanRaised} \cup { [raised |-> FALSE, devices |-> d] : d \in ScanResults }

\* The services found on the device: is the service there, is the
\* characteristic there, and the characteristic's properties.
Profiles ==
    { [service |-> TRUE, char |-> TRUE, properties |-> {"read", "write", "notify"}],
      [service |-> TRUE, char |-> TRUE, properties |-> {"write", "notify"}],
      [service |-> TRUE, char |-> FALSE, properties |-> {}],
      [service |-> FALSE, char |-> FALSE, properties |-> {}] }

CommandTexts ==
    { <<>>,
      <<"1", "A", "2", "B", "3", "C">>,
      <<"0", "a", "1", "b">>,
      <<"0", "A", "1">>,
      <<"z", "z">>,
      <<"1", "A", " ", "2", "B", "\n">> }

\* Outcome of an HTTP request: an exception, or a status and a body.
HttpRaised == [raised |-> TRUE, status |-> 0, text |-> <<>>]
HttpOutcomes ==
    {HttpRaised}
    \cup { [raised |-> FALSE, status |-> 200, text |-> t] : t \in CommandTexts }
    \cup { [raised |-> FALSE, status |-> st, text |-> <<"1", "A">>] : st \in {403, 429, 500} }

\* Notification payloads: a short one, a short one with a byte that is not
\* ASCII, one of exactly 40 characters, one of 41, 19 plain segments, one
\* whose version segment has no colon, one with more segments than slots,
\* and a long one with a byte that is not ASCII.
NotifValues ==
    { ValueOf(2, <<>>),
      ValueOf(2, [i \in {1} |-> "nonascii"]),
      ValueOf(10, [i \in {1} |-> "longkey"]),
      ValueOf(10, [i \in {1} |-> "twocolon"]),
      ValueOf(VersionSlot + 1, <<>>),
      ValueOf(VersionSlot + 1, [i \in {VersionSlot + 1} |-> "nocolon"]),
      ValueOf(NotifSlots + 1, <<>>),
      ValueOf(VersionSlot + 1, [i \in {1} |-> "nonascii"]) }

-----------------------------------------------------------------------------
(* The steps of the worker, as functions of their inputs *)

\* An operation the worker invoked, with its outcome and its argument.
Op(name, succeeded, a) == [op |-> name, ok |-> succeeded, arg |-> a]

ScanDevicesLast(v, device_name, scan) ==
    IF scan.raised
    THEN [address |-> None, logs |-> GuiLog(v, "bluetooth_off", <<>>)]
    ELSE LET devices == scan.devices
             hits == { i \in 1..Len(devices) : devices[i] = Some(device_name) }
         IN  IF hits = {}
             THEN [address |-> None, logs |-> GuiLog(v, "device_not_found", <<>>)]
             ELSE LET i == CHOOSE h \in hits : \A g \in hits : h >= g
                  IN  [address |-> Some(Addresses[i]),
                       logs |-> Log("device_found", <<device_name>>)]

\* scan_devices: the address of the first device whose name equals
\* device_name, or None; scan is the outcome of BleakScanner.discover().
ScanDevices(v, device_name, scan) ==
    IF scan.raised
    THEN [address |-> None, logs |-> GuiLog(v, "bluetooth_off", <<>>)]
    ELSE LET devices == scan.devices
             hits == { i \in 1..Len(devices) : devices[i] = Some(device_name) }
         IN  IF hits = {}
             THEN [address |-> None, logs |-> GuiLog(v, "device_not_found", <<>>)]
             ELSE LET i == CHOOSE h \in hits : \A g \in hits : h <= g
                  IN  [address |-> Some(Addresses[i]),
                       logs |-> Log("device_found", <<device_name>>)]

RunAfterScanModeTwo(v, m, address) ==
    IF address = None
    THEN [pc |-> "done", events |-> Finished(v, FALSE, "device_not_found", <<>>)]
    ELSE IF m /= "2"
    THEN [pc |-> "read_connecting",
          events |-> <<ProgressEv(40)>> \o Log("reading_info", <<>>)]
    ELSE [pc |-> "init_data",
          events |-> <<ProgressEv(40), ProgressEv(60)>> \o Log("fetching_init_data", <<>>)]

\* run, after scan_devices returned: where the worker goes and what it emits.
RunAfterScan(v, m, address) ==
    IF address = None
    THEN [pc |-> "done", events |-> Finished(v, FALSE, "device_not_found", <<>>)]
    ELSE IF m = "1"
    THEN [pc |-> "read_connecting",
          events |-> <<ProgressEv(40)>> \o Log("reading_info", <<>>)]
    ELSE [pc |-> "init_data",
          events |-> <<ProgressEv(40), ProgressEv(60)>> \o Log("fetching_init_data", <<>>)]

ResolveCharacteristicUnchecked(v, profile) ==
    IF ~profile.service
    THEN [readable |-> FALSE, logs |-> GuiLog(v, "service_not_found", <<>>)]
    ELSE IF ~profile.char
    THEN [readable |-> FALSE, logs |-> GuiLog(v, "char_not_found", <<>>)]
    ELSE [readable |-> TRUE, logs |-> <<>>]

\* read_characteristic, after get_services returned: the lookup of the
\* service and the characteristic and the check of the read property.
ResolveCharacteristic(v, profile) ==
    IF ~profile.service
    THEN [readable |-> FALSE, logs |-> GuiLog(v, "service_not_found", <<>>)]
    ELSE IF ~profile.char
    THEN [readable |-> FALSE, logs |-> GuiLog(v, "char_not_found", <<>>)]
    ELSE IF "read" \in profile.properties
    THEN [readable |-> TRUE, logs |-> <<>>]
    ELSE [readable |-> FALSE, logs |-> GuiLog(v, "not_readable", <<>>)]

RunAfterReadNoReturn(v, d, i) ==
    IF ~Truthy(d) \/ ~Truthy(i)
    THEN [pc |-> "get_data",
          events |-> GuiLog(v, "read_info_failed", <<>>)
                     \o Finished(v, FALSE, "read_info_failed", <<>>)]
    ELSE [pc |-> "get_data",
          events |-> <<ProgressEv(60)>> \o Log("fetching_restore_data", <<>>)]

\* run, after read_characteristic returned (d, i).
RunAfterRead(v, d, i) ==
    IF ~Truthy(d) \/ ~Truthy(i)
    THEN [pc |-> "done",
          events |-> GuiLog(v, "read_info_failed", <<>>)
                     \o Finished(v, FALSE, "read_info_failed", <<>>)]
    ELSE [pc |-> "get_data",
          events |-> <<ProgressEv(60)>> \o Log("fetching_restore_data", <<>>)]

ExchangeResultAnyStatus(v, resp) ==
    IF resp.raised THEN [ret |-> None, logs |-> <<>>]
    ELSE IF resp.status = 403
    THEN [ret |-> None, logs |-> Log("not_subscriber", <<>>)]
    ELSE IF resp.status = 429
    THEN [ret |-> None, logs |-> GuiLog(v, "too_frequent", <<>>)]
    ELSE [ret |-> Some(resp.text), logs |-> <<>>]

\* get_data / init_data, after the request returned or raised.
ExchangeResult(v, resp) ==
    IF resp.raised THEN [ret |-> None, logs |-> <<>>]
    ELSE IF resp.status = 403
    THEN [ret |-> None, logs |-> Log("not_subscriber", <<>>)]
    ELSE IF resp.status = 429
    THEN [ret |-> None, logs |-> GuiLog(v, "too_frequent", <<>>)]
    ELSE IF resp.status = 200
    THEN [ret |-> Some(resp.text), logs |-> <<>>]
    ELSE [ret |-> None, logs |-> <<>>]

RunAfterExchangeReuse(v, res) ==
    IF ~Truthy(res)
    THEN [pc |-> "done", byte_array |-> <<>>,
          events |-> GuiLog(v, "fetch_data_failed", <<>>)
                     \o Finished(v, FALSE, "fetch_data_failed", <<>>)]
    ELSE LET bytes == FromHex(res[1], <<>>)
             started == <<ProgressEv(80)>> \o Log("starting_power", <<>>)
         IN  IF bytes = None
             THEN [pc |-> "done", byte_array |-> <<>>,
                   events |-> started
                              \o Finished(v, FALSE, "op_failed", <<"ValueError">>)]
             ELSE [pc |-> "starting_notify", byte_array |-> bytes[1],
                   events |-> started]

RunAfterExchangeNoneOnly(v, res) ==
    IF res = None
    THEN [pc |-> "done", byte_array |-> <<>>,
          events |-> GuiLog(v, "fetch_data_failed", <<>>)
                     \o Finished(v, FALSE, "fetch_data_failed", <<>>)]
    ELSE LET bytes == FromHex(res[1], <<>>)
             started == <<ProgressEv(80)>> \o Log("starting_power", <<>>)
         IN  IF bytes = None
             THEN [pc |-> "done", byte_array |-> <<>>,
                   events |-> started
                              \o Finished(v, FALSE, "op_failed", <<"ValueError">>)]
             ELSE [pc |-> "write_connecting", byte_array |-> bytes[1],
                   events |-> started]

\* run, after get_data / init_data returned res, up to the connect of
\* connect_and_write; bytearray.fromhex may raise into run's except clause.
RunAfterExchange(v, res) ==
    IF ~Truthy(res)
    THEN [pc |-> "done", byte_array |-> <<>>,
          events |-> GuiLog(v, "fetch_data_failed", <<>>)
                     \o Finished(v, FALSE, "fetch_data_failed", <<>>)]
    ELSE LET bytes == FromHex(res[1], <<>>)
             started == <<ProgressEv(80)>> \o Log("starting_power", <<>>)
         IN  IF bytes = None
             THEN [pc |-> "done", byte_array |-> <<>>,
                   events |-> started
                              \o Finished(v, FALSE, "op_failed", <<"ValueError">>)]
             ELSE [pc |-> "write_connecting", byte_array |-> bytes[1],
                   events |-> started]

WriteFailedLogsLast(v, exc) ==
    Finished(v, FALSE, "op_failed", <<exc>>) \o GuiLog(v, "connect_error", <<>>)

\* connect_and_write, when an await inside its try block raised: the except
\* clause logs and re-raises, run's except clause reports the failure.
WriteFailed(v, exc) ==
    GuiLog(v, "connect_error", <<>>) \o Finished(v, FALSE, "op_failed", <<exc>>)

-----------------------------------------------------------------------------
(* The main window *)

\* MainWindow after __init__ and init_ui: no worker, start enabled, stop
\* disabled, progress bar hidden.  workers counts the BluetoothWorker objects
\* created, finished_seen tells whether a slot has handled the
\* finished_signal of the current worker, completions counts the calls of
\* operation_finished since the last start, warned tells whether the last
\* click on start was answered by the warning about the empty name.
WindowReady ==
    [start_button |-> TRUE, stop_button |-> FALSE, progress_visible |-> FALSE,
     status |-> "ready", workers |-> 0, finished_seen |-> FALSE, completions |-> 0,
     warned |-> FALSE]

\* start_operation with an empty name: QMessageBox.warning and return.
WindowWarned(w) == [w EXCEPT !.warned = TRUE]

WindowStartedKeepsStart(w) ==
    [w EXCEPT !.stop_button = TRUE,
              !.progress_visible = TRUE, !.status = "running",
              !.workers = w.workers + 1, !.finished_seen = FALSE,
              !.completions = 0, !.warned = FALSE]

\* start_operation, from the update of the buttons to worker.start().
WindowStarted(w) ==
    [w EXCEPT !.start_button = FALSE, !.stop_button = TRUE,
              !.progress_visible = TRUE, !.status = "running",
              !.workers = w.workers + 1, !.finished_seen = FALSE,
              !.completions = 0, !.warned = FALSE]

OperationFinishedKeepsStop(w, success) ==
    [w EXCEPT !.start_button = TRUE,
              !.progress_visible = FALSE,
              !.status = IF success THEN "succeeded" ELSE "failed",
              !.completions = w.completions + 1]

\* operation_finished(success).
OperationFinished(w, success) ==
    [w EXCEPT !.start_button = TRUE, !.stop_button = FALSE,
              !.progress_visible = FALSE,
              !.status = IF success THEN "succeeded" ELSE "failed",
              !.completions = w.completions + 1]

-----------------------------------------------------------------------------
(* The worker thread: one action per await or blocking call of run()       *)

Init ==
    /\ variant \in Variants
    /\ mode \in Modes
    /\ pc = "start"
    /\ device_address = None
    /\ client = "closed"
    /\ subscribed = FALSE
    /\ value = None
    /\ data = None
    /\ info = None
    /\ result = None
    /\ byte_array = <<>>
    /\ slept = 0
    /\ notified = 0
    /\ escaped = 0
    /\ scan_result = None
    /\ response = None
    /\ notif_data = None
    /\ parsed_data = None
    /\ uploading = FALSE
    /\ running = TRUE
    /\ window = WindowStarted(WindowReady)
    /\ events = <<>>
    /\ ops = <<>>

\* The exit of "async with BleakClient(...)": the connection is released.
\* It is part of the step that leaves the block, and it is taken to succeed.
Disconnect == Op("disconnect", TRUE, <<>>)

RunStartEventsNoProgress(v) ==
    GuiLog(v, "banner", <<>>) \o Log("searching", <<>>)

\* What run emits before it calls scan_devices.
RunStartEvents(v) ==
    GuiLog(v, "banner", <<>>) \o Log("searching", <<>>) \o <<ProgressEv(20)>>

\* run: from the start of the thread to the call of scanner.discover().
RunStart ==
    /\ pc = "start"
    /\ pc' = "scanning"
    /\ events' = events \o RunStartEvents(variant)
    /\ UNCHANGED <<running, window, uploading>>
    /\ UNCHANGED <<scan_result, response, notif_data, parsed_data>>
    /\ UNCHANGED <<variant, mode, device_address, client, subscribed, value, data, info,
                   result, byte_array, slept, notified, escaped, ops>>

\* scanner.discover() returns or raises; run continues to the next call.
ScanDone ==
    /\ pc = "scanning"
    /\ \E scan \in ScanOutcomes :
         LET found == ScanDevices(variant, TargetName, scan)
             next == RunAfterScan(variant, mode, found.address)
         IN  /\ device_address' = found.address
             /\ ops' = Append(ops, Op("scan", ~scan.raised, <<>>))
             /\ events' = events \o found.logs \o next.events
             /\ pc' = next.pc
    /\ UNCHANGED <<running, window, uploading>>
    /\ UNCHANGED <<scan_result, response, notif_data, parsed_data>>
    /\ UNCHANGED <<variant, mode, client, subscribed, value, data, info, result,
                   byte_array, slept, notified, escaped>>

\* read_characteristic: BleakClient.__aenter__ connects or raises.
ReadConnectDone ==
    /\ pc = "read_connecting"
    /\ \E connected \in BOOLEAN :
         IF connected
         THEN /\ client' = "open"
              /\ ops' = Append(ops, Op("connect", TRUE, <<>>))
              /\ pc' = "getting_services"
              /\ UNCHANGED events
         ELSE LET next == RunAfterRead(variant, None, None)
              IN  /\ ops' = Append(ops, Op("connect", FALSE, <<>>))
                  /\ events' = events \o GuiLog(variant, "read_exception", <<"BleakError">>)
                                      \o next.events
                  /\ pc' = next.pc
                  /\ UNCHANGED client
    /\ UNCHANGED <<running, window, uploading>>
    /\ UNCHANGED <<scan_result, response, notif_data, parsed_data>>
    /\ UNCHANGED <<variant, mode, device_address, subscribed, value, data, info, result,
                   byte_array, slept, notified, escaped>>

\* read_characteristic: get_services returns a profile or raises; the
\* service, the characteristic and the read property are checked.
GetServicesDone ==
    /\ pc = "getting_services"
    /\ \/ \E profile \in Profiles :
            LET found == ResolveCharacteristic(variant, profile)
                next == RunAfterRead(variant, None, None)
            IN  IF found.readable
                THEN /\ ops' = Append(ops, Op("get_services", TRUE, profile))
                     /\ pc' = "reading"
                     /\ UNCHANGED <<client, events>>
                ELSE /\ ops' = ops \o <<Op("get_services", TRUE, profile), Disconnect>>
                     /\ client' = "closed"
                     /\ events' = events \o found.logs \o next.events
                     /\ pc' = next.pc
       \/ LET next == RunAfterRead(variant, None, None)
          IN  /\ ops' = ops \o <<Op("get_services", FALSE, <<>>), Disconnect>>
              /\ client' = "closed"
              /\ events' = events \o GuiLog(variant, "read_exception", <<"BleakError">>)
                                  \o next.events
              /\ pc' = next.pc
    /\ UNCHANGED <<running, window, uploading>>
    /\ UNCHANGED <<scan_result, response, notif_data, parsed_data>>
    /\ UNCHANGED <<variant, mode, device_address, subscribed, value, data, info, result,
                   byte_array, slept, notified, escaped>>

\* read_characteristic: read_gatt_char returns a value or raises; the value
\* is decoded, the connection is released and run continues.
ReadDone ==
    /\ pc = "reading"
    /\ \/ \E bytes \in ReadValues :
            LET parsed == ParseTelemetry(variant, bytes)
                next == RunAfterRead(variant, parsed.data, parsed.info)
            IN  /\ ops' = ops \o <<Op("read", TRUE, <<>>), Disconnect>>
                /\ value' = Some(bytes)
                /\ data' = parsed.data
                /\ info' = parsed.info
                /\ events' = events \o parsed.logs \o next.events
                /\ pc' = next.pc
       \/ LET next == RunAfterRead(variant, None, None)
          IN  /\ ops' = ops \o <<Op("read", FALSE, <<>>), Disconnect>>
              /\ events' = events \o GuiLog(variant, "read_exception", <<"BleakError">>)
                                  \o next.events
              /\ pc' = next.pc
              /\ UNCHANGED <<value, data, info>>
    /\ client' = "closed"
    /\ UNCHANGED <<running, window, uploading>>
    /\ UNCHANGED <<scan_result, response, notif_data, parsed_data>>
    /\ UNCHANGED <<variant, mode, device_address, subscribed, result,
                   byte_array, slept, notified, escaped>>

\* The request of get_data (POST apigetdata) or init_data (GET apiinitdata)
\* returns or raises; run continues up to the connect of connect_and_write.
Exchange(api, body) ==
    \E resp \in HttpOutcomes :
        LET got == ExchangeResult(variant, resp)
            next == RunAfterExchange(variant, got.ret)
        IN  /\ ops' = Append(ops, Op(api, ~resp.raised, body))
            /\ response' = Some(resp)
            /\ result' = got.ret
            /\ byte_array' = next.byte_array
            /\ events' = events \o got.logs \o next.events
            /\ pc' = next.pc

GetDataDone ==
    /\ pc = "get_data"
    /\ Exchange("apigetdata", [data |-> data, name |-> TargetName, info |-> info])
    /\ UNCHANGED <<running, window, uploading>>
    /\ UNCHANGED <<scan_result, notif_data, parsed_data>>
    /\ UNCHANGED <<variant, mode, device_address, client, subscribed, value, data, info,
                   slept, notified, escaped>>

InitDataDone ==
    /\ pc = "init_data"
    /\ Exchange("apiinitdata", [name |-> TargetName])
    /\ UNCHANGED <<running, window, uploading>>
    /\ UNCHANGED <<scan_result, notif_data, parsed_data>>
    /\ UNCHANGED <<variant, mode, device_address, client, subscribed, value, data, info,
                   slept, notified, escaped>>

AfterStartNotifyIgnored(v, made) ==
    [pc |-> "writing", events |-> <<>>]

\* connect_and_write, after start_notify returned or raised: the write is
\* issued in the same step only when the subscription was made.
AfterStartNotify(v, made) ==
    IF made THEN [pc |-> "writing", events |-> <<>>]
    ELSE [pc |-> "done", events |-> WriteFailed(v, "BleakError")]

AfterWriteRetry(v, written) ==
    IF written THEN [pc |-> "sleeping", events |-> <<>>]
    ELSE [pc |-> "writing", events |-> <<>>]

\* connect_and_write, after write_gatt_char returned or raised: the settle
\* wait starts only after a write that succeeded.
AfterWrite(v, written) ==
    IF written THEN [pc |-> "sleeping", events |-> <<>>]
    ELSE [pc |-> "done", events |-> WriteFailed(v, "BleakError")]

SleepOverEarly(t) == t >= 1

\* asyncio.sleep(2) returns when the settle window has elapsed.
SleepOver(t) == t >= SettleWindow

ClientAfterKeepsOpen(next_pc) == "open"

\* connect_and_write: the async with block is left, by return or by
\* exception, exactly when control goes past the block; __aexit__ then
\* disconnects the client.
ClientAfter(next_pc) == IF next_pc = "done" THEN "closed" ELSE "open"

\* connect_and_write: BleakClient.__aenter__ connects or raises.
WriteConnectDone ==
    /\ pc = "write_connecting"
    /\ \E connected \in BOOLEAN :
         IF connected
         THEN /\ client' = "open"
              /\ ops' = Append(ops, Op("connect", TRUE, <<>>))
              /\ pc' = "starting_notify"
              /\ UNCHANGED events
         ELSE /\ ops' = Append(ops, Op("connect", FALSE, <<>>))
              /\ events' = events \o WriteFailed(variant, "BleakError")
              /\ pc' = "done"
              /\ UNCHANGED client
    /\ UNCHANGED <<running, window, uploading>>
    /\ UNCHANGED <<scan_result, response, notif_data, parsed_data>>
    /\ UNCHANGED <<variant, mode, device_address, subscribed, value, data, info,
                   result, byte_array, slept, notified, escaped>>

\* connect_and_write: start_notify returns or raises.
StartNotifyDone ==
    /\ pc = "starting_notify"
    /\ \E made \in BOOLEAN :
         LET next == AfterStartNotify(variant, made)
         IN  /\ pc' = next.pc
             /\ events' = events \o next.events
             /\ subscribed' = (made /\ next.pc /= "done")
             /\ client' = ClientAfter(next.pc)
             /\ ops' = ops \o <<Op("start_notify", made, <<>>)>>
                           \o (IF next.pc = "done" THEN <<Disconnect>> ELSE <<>>)
    /\ UNCHANGED <<running, window, uploading>>
    /\ UNCHANGED <<scan_result, response, notif_data, parsed_data>>
    /\ UNCHANGED <<variant, mode, device_address, value, data, info, result,
                   byte_array, slept, notified, escaped>>

\* connect_and_write: write_gatt_char returns or raises.
WriteDone ==
    /\ pc = "writing"
    /\ ~uploading
    /\ \E written \in BOOLEAN :
         LET next == AfterWrite(variant, written)
         IN  /\ pc' = next.pc
             /\ events' = events \o next.events
             /\ subscribed' = (next.pc /= "done")
             /\ client' = ClientAfter(next.pc)
             /\ ops' = ops \o <<Op("write", written, byte_array)>>
                           \o (IF next.pc = "done" THEN <<Disconnect>> ELSE <<>>)
    /\ slept' = 0
    /\ UNCHANGED <<running, window, uploading>>
    /\ UNCHANGED <<scan_result, response, notif_data, parsed_data>>
    /\ UNCHANGED <<variant, mode, device_address, value, data, info, result,
                   byte_array, notified, escaped>>

\* One time unit of asyncio.sleep(2) passes.
SleepTick ==
    /\ pc = "sleeping"
    /\ ~SleepOver(slept)
    /\ slept' = slept + 1
    /\ UNCHANGED <<running, window, uploading>>
    /\ UNCHANGED <<scan_result, response, notif_data, parsed_data>>
    /\ UNCHANGED <<variant, mode, pc, device_address, client, subscribed, value,
                   data, info, result, byte_array, notified, escaped, events, ops>>

\* asyncio.sleep(2) returns: the connection is released and run reports success.
SleepDone ==
    /\ pc = "sleeping"
    /\ ~uploading
    /\ SleepOver(slept)
    /\ client' = "closed"
    /\ subscribed' = FALSE
    /\ ops' = Append(ops, Disconnect)
    /\ events' = events \o <<ProgressEv(100)>> \o Finished(variant, TRUE, "op_done", <<>>)
    /\ pc' = "done"
    /\ UNCHANGED <<running, window, uploading>>
    /\ UNCHANGED <<scan_result, response, notif_data, parsed_data>>
    /\ UNCHANGED <<variant, mode, device_address, value, data, info, result,
                   byte_array, slept, notified, escaped>>

\* What notification_handler does, for every payload the device can send.
HandlerOutcome ==
    [v \in Variants, payload \in NotifValues, upload_ok \in BOOLEAN |->
        NotificationHandler(v, payload, upload_ok)]

\* The device sends a notification while the subscription is active: the
\* event loop runs notification_handler while the worker awaits the write
\* or the settle wait.  The handler returns or raises at once when it has
\* nothing to upload; otherwise it calls requests.post and waits in it.
Notify ==
    /\ pc \in {"writing", "sleeping"}
    /\ client = "open"
    /\ subscribed
    /\ ~uploading
    /\ notified < MaxNotifs
    /\ \E payload \in NotifValues :
         LET h == HandlerOutcome[variant, payload, TRUE]
         IN  /\ notif_data' = Some(payload)
             /\ parsed_data' = h.parsed
             /\ IF h.upload = None
                THEN /\ events' = events \o h.logs
                     /\ escaped' = IF h.raised THEN escaped + 1 ELSE escaped
                     /\ UNCHANGED uploading
                ELSE /\ uploading' = TRUE
                     /\ UNCHANGED <<events, escaped>>
    /\ notified' = notified + 1
    /\ UNCHANGED <<running, window, ops>>
    /\ UNCHANGED <<scan_result, response>>
    /\ UNCHANGED <<variant, mode, pc, device_address, client, subscribed, value,
                   data, info, result, byte_array, slept>>

\* requests.post of the handler returns or raises, and the handler runs to
\* its end: it logs the version, or the error.
UploadDone ==
    /\ uploading
    /\ \E upload_ok \in BOOLEAN :
         LET h == HandlerOutcome[variant, notif_data[1], upload_ok]
         IN  /\ events' = events \o h.logs
             /\ ops' = Append(ops, Op("apideviceinfo", upload_ok,
                                      [name |-> TargetName, info |-> h.upload[1]]))
             /\ escaped' = IF h.raised THEN escaped + 1 ELSE escaped
    /\ uploading' = FALSE
    /\ UNCHANGED <<running, window>>
    /\ UNCHANGED <<scan_result, response, notif_data, parsed_data, notified>>
    /\ UNCHANGED <<variant, mode, pc, device_address, client, subscribed, value,
                   data, info, result, byte_array, slept>>

Next ==
    \/ RunStart
    \/ ScanDone
    \/ ReadConnectDone
    \/ GetServicesDone
    \/ ReadDone
    \/ GetDataDone
    \/ InitDataDone
    \/ WriteConnectDone
    \/ StartNotifyDone
    \/ WriteDone
    \/ SleepTick
    \/ SleepDone
    \/ Notify
    \/ UploadDone

Spec == Init /\ [][Next]_vars


\* The steps whose transport operation completes or times out by itself:
\* discover scans for a bounded time, BleakClient connects within its
\* timeout, the GATT calls return or raise, asyncio.sleep(2) returns.
\* requests.post and requests.get are called with no timeout, so the answer
\* of the exchange service is not among them; nor is a notification, which
\* the device may never send.
BleStep ==
    \/ RunStart
    \/ ScanDone
    \/ ReadConnectDone
    \/ GetServicesDone
    \/ ReadDone
    \/ WriteConnectDone
    \/ StartNotifyDone
    \/ WriteDone
    \/ SleepTick
    \/ SleepDone

FairSpec == Init /\ [][Next]_vars /\ WF_vars(BleStep)

-----------------------------------------------------------------------------
(* The telemetry decode on its own: read_gatt_char has returned a value,   *)
(* read_characteristic decodes it.                                         *)

CodecInit ==
    /\ variant \in Variants
    /\ mode = "1"
    /\ pc = "decoding"
    /\ device_address = Some(Addresses[1])
    /\ client = "open"
    /\ subscribed = FALSE
    /\ value \in { Some(bytes) : bytes \in RawValues }
    /\ data = None
    /\ info = None
    /\ result = None
    /\ byte_array = <<>>
    /\ slept = 0
    /\ notified = 0
    /\ escaped = 0
    /\ scan_result = None
    /\ response = None
    /\ notif_data = None
    /\ parsed_data = None
    /\ uploading = FALSE
    /\ running = TRUE
    /\ window = WindowStarted(WindowReady)
    /\ events = <<>>
    /\ ops = <<>>

\* raw_data = value.decode('ascii') ... return result, raw_data
DecodeTelemetry ==
    /\ pc = "decoding"
    /\ LET parsed == ParseTelemetry(variant, value[1])
       IN  /\ data' = parsed.data
           /\ info' = parsed.info
           /\ events' = events \o parsed.logs
    /\ pc' = "decoded"
    /\ UNCHANGED <<running, window, uploading>>
    /\ UNCHANGED <<scan_result, response, notif_data, parsed_data>>
    /\ UNCHANGED <<variant, mode, device_address, client, subscribed, value,
                   result, byte_array, slept, notified, escaped, ops>>

CodecNext == DecodeTelemetry

CodecSpec == CodecInit /\ [][CodecNext]_vars

-----------------------------------------------------------------------------
(* The notification handler on its own: its input is any payload *)

\* Segment counts of a payload: a single segment, the counts on both sides
\* of the 40 characters, of the version slot and of the last slot.
NotifCounts ==
    {1, 10, 11, VersionSlot, VersionSlot + 1} \cup ((NotifSlots - 1)..MaxNotifSegs)

\* Payloads of the device: the first segment, the version segment, the
\* segment past the last slot and the last segment may deviate.
NotifPayloads ==
    { ValueOf(n, dev) : <<n, dev>> \in
        UNION { {n} \X Deviations({1, VersionSlot + 1, NotifSlots + 1, n} \cap 1..n,
                                  MaxNotifDev) : n \in NotifCounts } }
    \cup NotifValues

\* A session is open and subscribed, and the device sends data.
NotifInit ==
    /\ variant \in Variants
    /\ mode \in Modes
    /\ pc = "notifying"
    /\ device_address = Some(Addresses[1])
    /\ client = "open"
    /\ subscribed = TRUE
    /\ value = None
    /\ data = None
    /\ info = None
    /\ result = None
    /\ byte_array = <<>>
    /\ slept = 0
    /\ notified = 0
    /\ escaped = 0
    /\ scan_result = None
    /\ response = None
    /\ notif_data \in { Some(payload) : payload \in NotifPayloads }
    /\ parsed_data = None
    /\ uploading = FALSE
    /\ running = TRUE
    /\ window = WindowStarted(WindowReady)
    /\ events = <<>>
    /\ ops = <<>>

\* notification_handler(sender, data), from its first line to its return
\* or to the exception that leaves it.
HandleNotification ==
    /\ pc = "notifying"
    /\ \E upload_ok \in BOOLEAN :
         LET h == NotificationHandler(variant, notif_data[1], upload_ok)
         IN  /\ events' = events \o h.logs
             /\ ops' = IF h.upload = None THEN ops
                       ELSE Append(ops, Op("apideviceinfo", upload_ok,
                                           [name |-> TargetName, info |-> h.upload[1]]))
             /\ escaped' = IF h.raised THEN escaped + 1 ELSE escaped
             /\ parsed_data' = h.parsed
    /\ notified' = notified + 1
    /\ pc' = "handled"
    /\ UNCHANGED <<running, window, uploading>>
    /\ UNCHANGED <<scan_result, response, notif_data>>
    /\ UNCHANGED <<variant, mode, device_address, client, subscribed, value,
                   data, info, result, byte_array, slept>>

NotifNext == HandleNotification

NotifSpec == NotifInit /\ [][NotifNext]_vars

-----------------------------------------------------------------------------
(* scan_devices on its own: its input is any outcome of the scan *)

\* run has called scan_devices and the scan has come back.
DiscoverInit ==
    /\ variant \in Variants
    /\ mode \in Modes
    /\ pc = "scanning"
    /\ device_address = None
    /\ client = "closed"
    /\ subscribed = FALSE
    /\ value = None
    /\ data = None
    /\ info = None
    /\ result = None
    /\ byte_array = <<>>
    /\ slept = 0
    /\ notified = 0
    /\ escaped = 0
    /\ scan_result \in { Some(scan) : scan \in ScanOutcomes }
    /\ response = None
    /\ notif_data = None
    /\ parsed_data = None
    /\ uploading = FALSE
    /\ running = TRUE
    /\ window = WindowStarted(WindowReady)
    /\ events = RunStartEvents(variant)
    /\ ops = <<>>

\* self.device_address = await self.scan_devices()
Discover ==
    /\ pc = "scanning"
    /\ LET found == ScanDevices(variant, TargetName, scan_result[1])
       IN  /\ device_address' = found.address
           /\ events' = events \o found.logs
           /\ ops' = Append(ops, Op("scan", ~scan_result[1].raised, <<>>))
    /\ pc' = "scanned"
    /\ UNCHANGED <<running, window, uploading>>
    /\ UNCHANGED <<scan_result, response, notif_data, parsed_data>>
    /\ UNCHANGED <<variant, mode, client, subscribed, value, data, info, result,
                   byte_array, slept, notified, escaped>>

DiscoverNext == Discover

DiscoverSpec == DiscoverInit /\ [][DiscoverNext]_vars

-----------------------------------------------------------------------------
(* The window and its worker: the GUI thread runs the slots of MainWindow, *)
(* the worker thread runs BluetoothWorker.run                              *)

\* What the user may have typed into the device name field.
DeviceNameTexts == {"", "  ", "PWR-7734", " PWR-7734 "}

\* str.strip() on those texts.
Strip(text) ==
    CASE text = "" -> ""
      [] text = "  " -> ""
      [] text = "PWR-7734" -> "PWR-7734"
      [] text = " PWR-7734 " -> "PWR-7734"

\* The mode start_operation derives from the radio buttons.
RadioModes == {"1", "2"}

\* The window is shown and no worker exists yet.
GuiInit ==
    /\ variant \in Variants
    /\ mode = "1"
    /\ pc = "idle"
    /\ device_address = None
    /\ client = "closed"
    /\ subscribed = FALSE
    /\ value = None
    /\ data = None
    /\ info = None
    /\ result = None
    /\ byte_array = <<>>
    /\ slept = 0
    /\ notified = 0
    /\ escaped = 0
    /\ scan_result = None
    /\ response = None
    /\ notif_data = None
    /\ parsed_data = None
    /\ uploading = FALSE
    /\ running = FALSE
    /\ window = WindowReady
    /\ events = <<>>
    /\ ops = <<>>

\* A click on the start button: start_operation.  An empty name gives a
\* warning and nothing else; otherwise a new BluetoothWorker is created,
\* connected and started.
StartOperation ==
    /\ window.start_button
    /\ window.workers < MaxRuns
    /\ \E text \in DeviceNameTexts, m \in RadioModes :
         IF Strip(text) = ""
         THEN /\ window' = WindowWarned(window)
              /\ UNCHANGED <<variant, mode, pc, device_address, client, subscribed,
                             value, data, info, result, byte_array, slept, notified,
                             escaped, scan_result, response, notif_data, parsed_data,
                             uploading, running, events, ops>>
         ELSE /\ mode' = m
              /\ window' = WindowStarted(window)
              /\ running' = TRUE
              /\ uploading' = FALSE
              /\ pc' = "start"
              /\ device_address' = None
              /\ client' = "closed"
              /\ subscribed' = FALSE
              /\ value' = None
              /\ data' = None
              /\ info' = None
              /\ result' = None
              /\ byte_array' = <<>>
              /\ slept' = 0
              /\ notified' = 0
              /\ escaped' = 0
              /\ scan_result' = None
              /\ response' = None
              /\ notif_data' = None
              /\ parsed_data' = None
              /\ events' = <<>>
              /\ ops' = <<>>
              /\ UNCHANGED variant

\* The finished_signal of the current worker is queued for the GUI thread:
\* the worker has emitted it and no slot has handled it yet.  The log and
\* progress signals are taken as handled when they are emitted: they touch
\* the log view and the value of the progress bar only.
FinishedQueued ==
    /\ window.workers > 0
    /\ ~window.finished_seen
    /\ events /= <<>>
    /\ events[Len(events)].kind = "finished"

\* The value the progress bar shows: setValue(0) of start_operation, then
\* the last progress_signal.
ProgressValue ==
    LET at == { i \in 1..Len(events) : events[i].kind = "progress" }
    IN  IF at = {} THEN 0 ELSE events[CHOOSE i \in at : \A j \in at : j <= i].num

\* The slot operation_finished handles the queued finished_signal.
FinishedDelivered(w, ev) ==
    OperationFinished([w EXCEPT !.finished_seen = TRUE], ev.ok)

\* The event loop of the GUI thread delivers the queued finished_signal.
DeliverFinished ==
    /\ FinishedQueued
    /\ window' = FinishedDelivered(window, events[Len(events)])
    /\ UNCHANGED <<variant, mode, pc, device_address, client, subscribed, value, data,
                   info, result, byte_array, slept, notified, escaped, scan_result,
                   response, notif_data, parsed_data, uploading, running, events, ops>>

\* stop_operation on the window w: when the worker is running it is
\* terminated and waited for, and operation_finished(False) is called; the
\* message box of operation_finished runs the event loop, which delivers a
\* finished_signal the worker had queued before it was terminated.
StopOperationWindow(w, is_running, queued) ==
    IF is_running
    THEN IF queued
         THEN FinishedDelivered(OperationFinished(w, FALSE), events[Len(events)])
         ELSE OperationFinished(w, FALSE)
    ELSE w

\* A click on the stop button: stop_operation.
StopOperation ==
    /\ window.stop_button
    /\ window' = StopOperationWindow(window, running, FinishedQueued)
    /\ IF running
       THEN pc' = "terminated" /\ running' = FALSE /\ uploading' = FALSE
       ELSE UNCHANGED <<pc, running, uploading>>
    /\ UNCHANGED <<variant, mode, device_address, client, subscribed, value, data,
                   info, result, byte_array, slept, notified, escaped, scan_result,
                   response, notif_data, parsed_data, events, ops>>

\* run() has returned after its terminal signal: the thread finishes.
ThreadExit ==
    /\ pc = "done"
    /\ running
    /\ running' = FALSE
    /\ UNCHANGED <<variant, mode, pc, device_address, client, subscribed, value, data,
                   info, result, byte_array, slept, notified, escaped, scan_result,
                   response, notif_data, parsed_data, uploading, window, events, ops>>

GuiNext ==
    \/ StartOperation
    \/ StopOperation
    \/ DeliverFinished
    \/ ThreadExit
    \/ Next

GuiSpec == GuiInit /\ [][GuiNext]_vars

-----------------------------------------------------------------------------
(* Properties of the telemetry decode *)

Colons(seg) == Cardinality({ i \in 1..Len(seg) : seg[i] = ":" })

IsAscii(bytes) == \A i \in 1..Len(bytes) : bytes[i] /= NonAscii

\* The part of a segment after its first colon.
AfterFirstColon(seg) == SubSeq(seg, Find(seg, ":") + 1, Len(seg))

\* The decode has run on the value that was read.
Decoded == pc = "decoded" /\ value /= None

\* The value is text of exactly 13 segments with one colon each.
WellFormed(bytes) ==
    LET segs == Split(bytes, ",")
    IN  /\ IsAscii(bytes)
        /\ Len(segs) = 13
        /\ \A i \in 1..13 : Colons(segs[i]) = 1

\* C8: for every text of exactly 13 comma-separated key:value segments the
\* decode returns exactly 13 values, value i being the right-hand side of
\* segment i in input order, and returns the text itself as the raw info.
C8_DecodeReturnsValues ==
    (Decoded /\ WellFormed(value[1])) =>
        /\ data /= None
        /\ Len(data[1]) = 13
        /\ LET segs == Split(value[1], ",")
           IN  \A i \in 1..13 : data[1][i] = AfterFirstColon(segs[i])
        /\ info = value

C8_Witness ==
    /\ Decoded
    /\ WellFormed(value[1])
    /\ data /= None
    /\ \E i \in 1..13 : Len(Split(value[1], ",")[i]) > 3 /\ Len(data[1][i]) = 2
    /\ \E i \in 1..13 : data[1][i] = <<>>

\* C9: a text whose segment count is not 13, or in which some segment has
\* no colon, is rejected as a whole: no value list and no raw info are
\* returned, whichever segment is the malformed one.
C9_MalformedRejected ==
    (Decoded /\ (\/ Len(Split(value[1], ",")) /= 13
                 \/ \E i \in 1..Len(Split(value[1], ",")) :
                        Colons(Split(value[1], ",")[i]) = 0)) =>
        (data = None /\ info = None)

C9_Witness ==
    /\ Decoded
    /\ IsAscii(value[1])
    /\ Len(Split(value[1], ",")) = 13
    /\ Colons(Split(value[1], ",")[13]) = 0
    /\ \A i \in 1..12 : Colons(Split(value[1], ",")[i]) = 1
    /\ data = None

\* A text of 13 segments that all have a colon, one of them two or more.
ManyColons(bytes) ==
    /\ IsAscii(bytes)
    /\ Len(Split(bytes, ",")) = 13
    /\ \A i \in 1..13 : Colons(Split(bytes, ",")[i]) >= 1
    /\ \E i \in 1..13 : Colons(Split(bytes, ",")[i]) >= 2

\* C10 as stated: a 13-segment text with a segment of two or more colons is
\* accepted, the value of a segment being everything after its first colon.
C10_FirstColonOnly ==
    (Decoded /\ ManyColons(value[1])) =>
        /\ data /= None
        /\ \A i \in 1..13 : data[1][i] = AfterFirstColon(Split(value[1], ",")[i])

\* C10 amended: the decode splits a segment at every colon and accepts it
\* only when that gives exactly two parts, so a 13-segment text with a
\* segment of two or more colons is rejected as a whole.
C10_ManyColonsRejected ==
    (Decoded /\ ManyColons(value[1])) => (data = None /\ info = None)

C10_Witness ==
    /\ Decoded
    /\ ManyColons(value[1])
    /\ Colons(Split(value[1], ",")[1]) = 1
    /\ data = None

-----------------------------------------------------------------------------
(* Properties of a run *)

OpIdx(name) == { i \in 1..Len(ops) : ops[i].op = name }

ExchangeIdx == OpIdx("apigetdata") \cup OpIdx("apiinitdata")

LastEvent == events[Len(events)]

\* The run has ended and its last signal is finished(False) / finished(True).
RunFailed ==
    pc = "done" /\ events /= <<>> /\ LastEvent.kind = "finished" /\ ~LastEvent.ok
RunSucceeded ==
    pc = "done" /\ events /= <<>> /\ LastEvent.kind = "finished" /\ LastEvent.ok

\* Operation i is where a step of the run failed: the primitive raised, the
\* scan found no device, the characteristic could not be read, the value
\* read did not decode, or the exchange gave no command.
StepFailedAt(i) ==
    \/ ~ops[i].ok /\ ops[i].op /= "apideviceinfo"
    \/ ops[i].op = "scan" /\ device_address = None
    \/ ops[i].op = "get_services" /\ i < Len(ops) /\ ops[i + 1].op = "disconnect"
    \/ ops[i].op = "read" /\ data = None
    \/ i \in ExchangeIdx /\ ~Truthy(result)

\* C1: scan, read, exchange request and write are each invoked at most once
\* in a run; once a step has failed the run has ended with a failure report
\* and no operation other than the release of the connection follows it.
C1_NoRetryFailureTerminal ==
    /\ \A name \in {"scan", "read", "write"} : Cardinality(OpIdx(name)) <= 1
    /\ Cardinality(ExchangeIdx) <= 1
    /\ \A i \in 1..Len(ops) :
         StepFailedAt(i) =>
            /\ RunFailed
            /\ \A j \in (i + 1)..Len(ops) : ops[j].op = "disconnect"

C1_Witness ==
    /\ RunFailed
    /\ \E i \in OpIdx("write") : ~ops[i].ok
    /\ OpIdx("scan") /= {} /\ OpIdx("read") /= {} /\ OpIdx("apigetdata") /= {}

\* C2: when the exchange returns no non-empty command the run has ended in
\* failure and the exchange request is its last operation: no connection
\* is opened for writing, no subscription is made, nothing is written.
C2_NoCommandNoWrite ==
    \A i \in ExchangeIdx :
        ~Truthy(result) =>
            /\ RunFailed
            /\ i = Len(ops)
            /\ client = "closed"
            /\ ~subscribed
            /\ OpIdx("start_notify") = {} /\ OpIdx("write") = {}

C2_Witness ==
    /\ ExchangeIdx /= {}
    /\ result = None
    /\ \E k \in 1..Len(events) : events[k].kind = "log" /\ events[k].msg = "not_subscriber"
    /\ RunFailed

\* The read step of a Restore run has returned.
ReadOver ==
    /\ mode = "1"
    /\ device_address /= None
    /\ pc \notin {"start", "scanning", "read_connecting", "getting_services", "reading"}

\* C3: in Restore mode apigetdata is requested only after a read of the
\* same run returned a valid 13-field record, and it carries that record
\* and its raw text; after a failed read or decode the run has ended in
\* failure without any exchange request.
C3_RestoreExchangeAfterValidRead ==
    /\ \A i \in OpIdx("apigetdata") :
         /\ mode = "1"
         /\ \E j \in 1..(i - 1) : ops[j].op = "read" /\ ops[j].ok
         /\ value /= None
         /\ WellFormed(value[1])
         /\ ops[i].arg.name = TargetName
         /\ ops[i].arg.info = value
         /\ ops[i].arg.data /= None
         /\ Len(ops[i].arg.data[1]) = 13
         /\ LET segs == Split(value[1], ",")
            IN  \A k \in 1..13 : ops[i].arg.data[1][k] = AfterFirstColon(segs[k])
    /\ (ReadOver /\ (value = None \/ ~WellFormed(value[1]))) =>
         (RunFailed /\ ExchangeIdx = {})

C3_Witness ==
    /\ OpIdx("apigetdata") /= {}
    /\ value /= None
    /\ \E k \in 1..13 : Len(Split(value[1], ",")[k]) /= 3

\* C4: in a mode other than "1" the run reads nothing from the device and
\* never requests apigetdata; its only exchange request is apiinitdata,
\* which carries the device name and nothing else.
C4_InitializeSkipsRead ==
    mode /= "1" =>
        /\ value = None /\ data = None /\ info = None
        /\ \A i \in 1..Len(ops) :
             /\ ops[i].op \notin {"read", "get_services", "apigetdata"}
             /\ ops[i].op = "apiinitdata" => ops[i].arg = [name |-> TargetName]
             /\ ops[i].op = "connect" => \E j \in 1..(i - 1) : ops[j].op = "apiinitdata"

C4_Witness ==
    /\ mode = "3"
    /\ OpIdx("apiinitdata") /= {}
    /\ OpIdx("write") /= {}

\* C5: a write is issued only on a connection on which start_notify has
\* succeeded before; when start_notify fails nothing is written.
C5_WriteAfterSubscribe ==
    /\ pc = "writing" => (subscribed /\ client = "open")
    /\ \A i \in OpIdx("write") :
         \E j \in 2..(i - 1) :
            /\ ops[j].op = "start_notify" /\ ops[j].ok
            /\ ops[j - 1].op = "connect" /\ ops[j - 1].ok
            /\ \A k \in (j + 1)..(i - 1) : ops[k].op = "apideviceinfo"
    /\ \A j \in OpIdx("start_notify") :
         ~ops[j].ok => (OpIdx("write") = {} /\ pc = "done")

C5_Witness ==
    \E i \in OpIdx("write") : ops[i].ok /\ ops[i - 1].op = "start_notify"

\* C6: after a write that succeeded the connection stays open and
\* subscribed through the settle wait, a notification can still be
\* delivered during it, and the connection is released only when the 2
\* units have elapsed; a write that failed is followed by the release at
\* once, without any wait.
C6_SettleWindowHeld ==
    /\ pc = "sleeping" =>
         /\ client = "open" /\ subscribed
         /\ (notified < MaxNotifs /\ ~uploading) => ENABLED Notify
    /\ \A i \in OpIdx("write") :
         IF ops[i].ok
         THEN /\ pc \in {"sleeping", "done"}
              /\ (\E j \in (i + 1)..Len(ops) : ops[j].op = "disconnect") => slept = 2
              /\ pc = "done" => slept = 2
         ELSE /\ pc = "done" /\ slept = 0
              /\ i < Len(ops) /\ ops[i + 1].op = "disconnect"

C6_Witness ==
    /\ pc = "done" /\ slept = 2
    /\ \E i \in OpIdx("write") :
         /\ ops[i].ok
         /\ \E j \in (i + 1)..Len(ops) : ops[j].op = "apideviceinfo"
         /\ ops[Len(ops)].op = "disconnect"

\* A text of hex digit pairs and nothing else, and the bytes it denotes.
PureHex(s) == Len(s) % 2 = 0 /\ \A k \in 1..Len(s) : IsHex(s[k])
HexBytes(s) == [k \in 1..(Len(s) \div 2) |-> 16 * HexVal(s[2 * k - 1]) + HexVal(s[2 * k])]

\* C7: in a Restore run the bytes written are the hex decoding of the text
\* the exchange returned ("1A2B3C" gives 0x1A, 0x2B, 0x3C), and a run whose
\* write succeeded ends with a success report.
C7_RestoreWritesDecodedCommand ==
    mode = "1" =>
        \A i \in OpIdx("write") :
            /\ value /= None /\ WellFormed(value[1])
            /\ result /= None
            /\ PureHex(result[1]) => ops[i].arg = HexBytes(result[1])
            /\ result[1] = <<"1", "A", "2", "B", "3", "C">> => ops[i].arg = <<26, 43, 60>>
            /\ (ops[i].ok /\ pc = "done") => RunSucceeded

C7_Witness ==
    /\ mode = "1"
    /\ RunSucceeded
    /\ \E i \in OpIdx("write") : ops[i].ok /\ ops[i].arg = <<26, 43, 60>>

\* A notification was delivered in this step.
NotifyStep == notified' = notified + 1

\* The payload given to the handler in this step.
Delivered == notif_data'[1]

\* The handler, in this step, did nothing that can be observed.
HandlerSilent ==
    UNCHANGED <<events, ops, escaped, uploading, pc, client, subscribed, slept>>

\* C11 as stated: a notification payload of length 40 or less is ignored
\* whatever its content: no upload, no log event, no error, and no change
\* of the run.
C11_ShortIgnoredAnyContent ==
    [][(NotifyStep /\ Len(Delivered) <= NotifMinLen) => HandlerSilent]_vars

\* C11: a notification payload that decodes as ASCII text of length 40 or
\* less is ignored: no upload, no log event, no error, no change of the run.
\* The bytes are decoded before the length is looked at, so a payload that
\* is not ASCII is a decode failure at any length: the error is logged,
\* nothing is uploaded, and in xdjkgui the exception leaves the handler.
C11_ShortTextIgnored ==
    [][NotifyStep =>
         /\ (IsAscii(Delivered) /\ Len(Delivered) <= NotifMinLen) => HandlerSilent
         /\ ~IsAscii(Delivered) =>
               /\ events' = events \o Log("parse_version_error", <<>>)
               /\ ops' = ops
               /\ escaped' = IF variant = "xdjkgui" THEN escaped + 1 ELSE escaped
               /\ UNCHANGED <<pc, client, subscribed, slept>>]_vars

\* A payload of exactly 40 ASCII characters was delivered and the run went
\* on to its end.
C11_Witness ==
    /\ notified > 0 /\ notif_data /= None
    /\ IsAscii(notif_data[1]) /\ Len(notif_data[1]) = NotifMinLen
    /\ OpIdx("apideviceinfo") = {}
    /\ RunSucceeded

\* The handler has run on the payload.
Handled == pc = "handled" /\ notif_data /= None

\* The part of a segment between its first colon and the next one (the
\* whole rest when there is one colon only).
SegmentValue(seg) ==
    LET rest == AfterFirstColon(seg)
    IN  IF Colons(rest) = 0 THEN rest ELSE SubSeq(rest, 1, Find(rest, ":") - 1)

\* The record a payload's segments call for: slot i (0-based) holds the
\* value of segment i when that segment has a colon, and ten zeros when it
\* has none or when there is no segment i.
ExpectedSlots(segs) ==
    [i \in 1..NotifSlots |->
        IF i <= Len(segs) /\ Colons(segs[i]) > 0 THEN SegmentValue(segs[i])
        ELSE <<"0", "0", "0", "0", "0", "0", "0", "0", "0", "0">>]

\* C12: for a payload of more than 40 characters and at most 50 segments
\* the record holds at index i the value of segment i for exactly the
\* segments that contain a colon and ten zeros at every other index; the
\* version uploaded, and logged when the upload went through, is slot 18.
C12_SlotsByPosition ==
    (Handled /\ IsAscii(notif_data[1]) /\ Len(notif_data[1]) > NotifMinLen) =>
        LET segs == Split(notif_data[1], ",")
            slots == ExpectedSlots(segs)
        IN  Len(segs) <= NotifSlots =>
              /\ parsed_data = Some(slots)
              /\ Len(ops) = 1 /\ ops[1].op = "apideviceinfo"
              /\ ops[1].arg.info = slots[VersionSlot + 1]
              /\ ops[1].ok => events = Log("device_version", slots[VersionSlot + 1])

\* A payload of 19 segments whose first segment has no colon: slot 0 keeps
\* the ten zeros and the value of segment 18 is uploaded and logged.
C12_Witness ==
    /\ Handled /\ IsAscii(notif_data[1])
    /\ LET segs == Split(notif_data[1], ",")
       IN  /\ Len(segs) = VersionSlot + 1
           /\ Colons(segs[1]) = 0
           /\ Colons(segs[VersionSlot + 1]) = 1
    /\ parsed_data /= None
    /\ parsed_data[1][1] = <<"0", "0", "0", "0", "0", "0", "0", "0", "0", "0">>
    /\ events = Log("device_version", <<ValChar(VersionSlot + 1)>>)

\* C13: for a payload with more than 50 segments the decode is bounded to
\* the first 50: no fault (no error logged, no exception, the version is
\* uploaded), and slots 0..49 are filled as for the first 50 segments.
C13_ExtraSegmentsTruncated ==
    (Handled /\ IsAscii(notif_data[1]) /\ Len(notif_data[1]) > NotifMinLen) =>
        LET segs == Split(notif_data[1], ",")
            slots == ExpectedSlots(SubSeq(segs, 1, NotifSlots))
        IN  Len(segs) > NotifSlots =>
              /\ parsed_data = Some(slots)
              /\ escaped = 0
              /\ Len(ops) = 1 /\ ops[1].op = "apideviceinfo"
              /\ ops[1].arg.info = slots[VersionSlot + 1]
              /\ ops[1].ok => events = Log("device_version", slots[VersionSlot + 1])

\* The handler met a failure: bytes that are not ASCII, a segment with a
\* colon past the last slot, or an upload that raised.
HandlerFailed ==
    /\ notified > 0 /\ notif_data /= None
    /\ \/ ~IsAscii(notif_data[1])
       \/ parsed_data = None /\ Len(notif_data[1]) > NotifMinLen
       \/ \E i \in OpIdx("apideviceinfo") : ~ops[i].ok

\* C14: a notification that fails to decode, or whose upload fails, is
\* logged and swallowed inside the handler: no exception leaves the handler,
\* the session goes on through write and settle window, and the run ends as
\* it would have without the notification.
C14_FailureSwallowed ==
    HandlerFailed =>
        /\ \E i \in 1..Len(events) : <<events[i]>> = Log("parse_version_error", <<>>)
        /\ escaped = 0
        /\ pc = "done" => (RunSucceeded <=> \E i \in OpIdx("write") : ops[i].ok)

\* C15: the command text is decoded strictly: a text of odd length or with
\* any character that is not a hex digit, whitespace included, is rejected,
\* and the run then fails without opening a connection, subscribing or
\* writing.
C15_StrictHexRejected ==
    (result /= None /\ Truthy(result) /\ ~PureHex(result[1])) =>
        /\ RunFailed
        /\ \A i \in ExchangeIdx : \A j \in (i + 1)..Len(ops) :
               ops[j].op \notin {"connect", "start_notify", "write"}

\* The scan has completed and scan_devices has returned.
Scanned == pc = "scanned" /\ scan_result /= None /\ ~scan_result[1].raised

\* Names that come close to the target name without being equal to it.
NearNames == {Some("PWR-77"), Some("pwr-7734"), Some("PWR-7734 "), None}

\* C16: discovery returns the address of the first device of the scan result
\* whose name equals the target name exactly (a prefix, another case, a
\* padded name or no name is no match), and not-found when there is none.
C16_FirstExactName ==
    Scanned =>
        LET devices == scan_result[1].devices
            named == { i \in 1..Len(devices) : devices[i] = Some("PWR-7734") }
        IN  /\ named = {} <=> device_address = None
            /\ \A i \in named :
                 (\A j \in 1..(i - 1) : j \notin named) => device_address = Some(Addresses[i])
            /\ \A i \in 1..Len(devices) :
                 devices[i] \in NearNames => device_address /= Some(Addresses[i])

\* Two devices carry the target name and the address returned is that of
\* the first of the two.
C16_Witness ==
    /\ Scanned
    /\ Len(scan_result[1].devices) >= 2
    /\ scan_result[1].devices[1] = Some(TargetName)
    /\ scan_result[1].devices[2] = Some(TargetName)
    /\ device_address = Some(Addresses[1])

\* What the observer is sent in a run whose scan completes and finds no
\* device of the target name.
NoMatchEvents ==
    RunStartEvents(variant)
    \o ScanDevices(variant, TargetName, [raised |-> FALSE, devices |-> <<>>]).logs
    \o RunAfterScan(variant, mode, None).events

\* C17: a scan that cannot be started and a scan that completes without a
\* match are told apart at the observer: the events of a run whose scan
\* raised differ from those of a run whose scan found no match.
C17_ScanFailureDistinct ==
    (pc = "done" /\ OpIdx("scan") = {1} /\ Len(ops) = 1 /\ ~ops[1].ok) =>
        events /= NoMatchEvents

\* The kind of an exchange failure: HTTP 403, HTTP 429, or anything else
\* that is not a 200 answer.
ExchangeFailed(resp) == resp.raised \/ resp.status /= 200
FailureKind(resp) ==
    IF ~resp.raised /\ resp.status = 403 THEN "unauthorized"
    ELSE IF ~resp.raised /\ resp.status = 429 THEN "rate_limited"
    ELSE "generic"

\* The events of the run that follow the announcement of the exchange.
SinceExchange ==
    LET at == { i \in 1..Len(events) :
                  events[i].kind = "log"
                  /\ events[i].msg \in {"fetching_restore_data", "fetching_init_data"} }
    IN  IF at = {} THEN <<>>
        ELSE SubSeq(events, (CHOOSE i \in at : \A j \in at : j <= i) + 1, Len(events))

\* The events that follow the announcement when the exchange ends as resp.
EventsOfExchange(v, resp) ==
    ExchangeResult(v, resp).logs \o RunAfterExchange(v, ExchangeResult(v, resp).ret).events

\* C18: the three kinds of exchange failure (403, 429, any other status or
\* a transport error) give pairwise distinct event sequences at the
\* observer, for apigetdata and for apiinitdata.
C18_FailureKindsDistinct ==
    (pc = "done" /\ response /= None /\ ExchangeFailed(response[1])) =>
        \A other \in HttpOutcomes :
            (ExchangeFailed(other) /\ FailureKind(other) /= FailureKind(response[1]))
                => SinceExchange /= EventsOfExchange(variant, other)

\* The services the device showed lack the service, the characteristic or
\* the read property.
Unreadable(profile) ==
    ~profile.service \/ ~profile.char \/ "read" \notin profile.properties

\* C19: the read capability is checked before the read: when the service or
\* the characteristic is not found, or its properties do not contain read,
\* the read primitive is never invoked and the telemetry read fails; a read
\* that is invoked follows services that showed a readable characteristic.
C19_ReadGatedByCapability ==
    /\ \A i \in OpIdx("get_services") :
         (ops[i].ok /\ Unreadable(ops[i].arg)) =>
             /\ OpIdx("read") = {}
             /\ value = None /\ data = None /\ info = None
             /\ ExchangeIdx = {}
             /\ RunFailed
    /\ \A j \in OpIdx("read") :
         \E i \in OpIdx("get_services") :
             i < j /\ ops[i].ok /\ ~Unreadable(ops[i].arg)

\* The characteristic was found without the read property: the run has
\* failed and read_gatt_char was not called.
C19_Witness ==
    /\ RunFailed
    /\ OpIdx("read") = {}
    /\ \E i \in OpIdx("get_services") :
         /\ ops[i].ok /\ ops[i].arg.service /\ ops[i].arg.char
         /\ "read" \notin ops[i].arg.properties

\* C20: in every run, in both modes, the connection to the device is opened
\* before the command is requested from the exchange, and a connect failure
\* ends the run before any exchange request is made.
C20_ConnectBeforeExchange ==
    /\ \A i \in ExchangeIdx : \E j \in 1..(i - 1) : ops[j].op = "connect" /\ ops[j].ok
    /\ \A j \in OpIdx("connect") : ~ops[j].ok => ExchangeIdx = {}

\* stop_operation has terminated the worker of the current run.
Stopped == pc = "terminated"

\* C21: a stop request at any point of a running run prevents every later
\* step of that run and closes the connection that is open at that moment:
\* once stop has completed no step of the worker can begin and no BLE
\* connection of the run is open.
C21_StopClosesConnection ==
    Stopped => (~running /\ ~ENABLED Next /\ client = "closed")

\* C22: the notification handler never blocks the write path: while a
\* notification is being handled, its upload included, the write in flight
\* can return and the settle window can end; and a notification can be
\* handled while the write has not returned yet.
C22_HandlerNeverBlocks ==
    /\ uploading =>
         /\ pc = "writing" => ENABLED WriteDone
         /\ (pc = "sleeping" /\ SleepOver(slept)) => ENABLED SleepDone
    /\ (pc = "writing" /\ notified < MaxNotifs /\ ~uploading) => ENABLED Notify

\* A new worker is created and started in this step.
StartStep == window'.workers = window.workers + 1

\* No run is in progress: there is no worker yet, or the run of the current
\* worker has emitted its terminal signal, or the worker was terminated.
RunOver == pc \in {"idle", "done", "terminated"} /\ ~uploading

\* C23 as stated: a new worker cannot be started while the thread of a
\* worker started before is still running.
C23_NoStartWhileThreadRuns ==
    [][StartStep => ~running]_vars

\* C23: at most one run is in progress at any time: after any sequence of
\* start, stop and finish events a new worker is started only when the run
\* of the previous worker has emitted its terminal signal or was terminated
\* and waited for; the thread of the previous worker may then still be
\* returning from run, and takes no further step of the workflow.
C23_SingleActiveRun ==
    [][StartStep => (RunOver /\ (running => pc = "done") /\ ~ENABLED Next)]_vars

\* A second worker is at work after the first one was started.
C23_Witness ==
    /\ window.workers = 2
    /\ running
    /\ pc = "write_connecting"

\* The positions of the terminal signals among the events of the run.
FinishedIdx == { i \in 1..Len(events) : events[i].kind = "finished" }

\* C24: a run that is not stopped emits exactly one terminal signal on every
\* path through the workflow, exceptions of the hex decoding, of a connect
\* and of the write included, and that signal is the last event the worker
\* emits: the run is over exactly when the signal is out, and a run that can
\* take no further step has emitted it.
C24_OneTerminalSignalLast ==
    /\ Cardinality(FinishedIdx) <= 1
    /\ pc = "done" <=> FinishedIdx = {Len(events)} /\ events /= <<>>
    /\ pc /= "done" => FinishedIdx = {}
    /\ ~ENABLED Next => pc = "done"
    /\ pc = "done" => ~ENABLED Next

\* The command text did not decode as hex: the run ends with one terminal
\* signal, after the announcement of the write.
C24_Witness ==
    /\ pc = "done"
    /\ result /= None /\ Truthy(result) /\ FromHex(result[1], <<>>) = None
    /\ FinishedIdx = {Len(events)}
    /\ ~events[Len(events)].ok
    /\ events[Len(events) - 1] = LogEv("starting_power", <<>>)

\* The type names and texts of the exceptions the transport and the parsers
\* raise.
RawFaults == {"BleakError", "ValueError", "UnicodeDecodeError"}

\* C25: every message that reaches the observer, log events and terminal
\* message alike, is one of the fixed outcomes: no type name or text of an
\* exception is forwarded, whichever step raised.
C25_NoRawFaultForwarded ==
    \A i \in 1..Len(events) :
        \A k \in 1..Len(events[i].arg) : events[i].arg[k] \notin RawFaults


\* Number of connections open after the first k operations of the run.
OpenAfter(k) ==
    Cardinality({i \in 1..k : ops[i].op = "connect" /\ ops[i].ok})
      - Cardinality({i \in 1..k : ops[i].op = "disconnect"})

\* C26: every connection a run opens is closed before the run reports its
\* terminal outcome: once the terminal signal is emitted, on success and on
\* every failure path, no connection is open and every successful connect
\* has been matched by a disconnect.
C26_ClosedBeforeTerminal ==
    (FinishedIdx /= {} \/ pc = "done") =>
        /\ client = "closed"
        /\ ~subscribed
        /\ OpenAfter(Len(ops)) = 0
        /\ \A i \in 1..Len(ops) :
             (ops[i].op = "connect" /\ ops[i].ok) =>
                 \E j \in (i+1)..Len(ops) : ops[j].op = "disconnect"

\* A run that opened the write connection, failed inside it and reported
\* failure after the connection was released.
C26_Witness ==
    /\ FinishedIdx /= {}
    /\ RunFailed
    /\ \E i \in 1..Len(ops) : ops[i].op = "write" /\ ~ops[i].ok
    /\ ops[Len(ops)] = Disconnect


\* The run waits for an answer of the exchange service.
AwaitingExchange == pc \in {"get_data", "init_data"} \/ uploading

\* C27: every started run eventually emits its terminal signal; no step
\* blocks the run forever when the device or the exchange service never
\* answers.
C27_RunTerminates == <>(FinishedIdx /= {})

\* A run that never reports waits for the exchange service from some point
\* on: the steps against the device do complete.
C27_OnlyExchangeBlocks == <>(FinishedIdx /= {}) \/ <>[]AwaitingExchange


\* The run has emitted finished(True).
ReportedSuccess == \E i \in FinishedIdx : events[i].ok

\* The run made exactly one operation of the kind, it succeeded, and every
\* operation of the kind before precedes it.
OnlyOkAfter(kind, before) ==
    \E i \in OpIdx(kind) :
        /\ OpIdx(kind) = {i}
        /\ ops[i].ok
        /\ OpIdx(before) /= {}
        /\ \A j \in OpIdx(before) : j < i

\* C28: a run reports success only if the whole chain completed in that
\* run: the scan matched the device name, in Restore mode a valid 13-field
\* record was read, the exchange returned status 200 with a non-empty body,
\* the subscription and the write both completed without error, and the
\* settle window elapsed.
C28_SuccessOnlyAfterWholeChain ==
    ReportedSuccess =>
        /\ ops /= <<>> /\ ops[1] = Op("scan", TRUE, <<>>)
        /\ OpIdx("scan") = {1}
        /\ device_address /= None
        /\ \E k \in 1..Len(events) :
             events[k] = Log("device_found", <<TargetName>>)[1]
        /\ mode = "1" =>
             /\ OnlyOkAfter("read", "scan")
             /\ value /= None /\ WellFormed(value[1])
             /\ data /= None /\ Len(data[1]) = 13
             /\ info = value
             /\ OnlyOkAfter("apigetdata", "read")
        /\ mode /= "1" => OnlyOkAfter("apiinitdata", "scan")
        /\ response /= None
        /\ ~response[1].raised
        /\ response[1].status = 200
        /\ response[1].text /= <<>>
        /\ result = Some(response[1].text)
        /\ \A e \in ExchangeIdx : \A s \in OpIdx("start_notify") : e < s
        /\ OnlyOkAfter("start_notify", "scan")
        /\ OnlyOkAfter("write", "start_notify")
        /\ \A i \in 1..Len(ops) : ops[i].op /= "apideviceinfo" => ops[i].ok
        /\ slept = SettleWindow
        /\ ops[Len(ops)] = Disconnect

\* A Restore run that reported success although the upload of a
\* notification it received in the settle window had failed.
C28_Witness ==
    /\ ReportedSuccess
    /\ mode = "1"
    /\ \E i \in OpIdx("apideviceinfo") : ~ops[i].ok


\* C29: for each started run operation_finished runs once and no more,
\* under every interleaving of the worker thread and the GUI thread; a stop
\* that arrives after the worker emitted its terminal signal and before the
\* signal is delivered produces no second completion.
C29_OneCompletionPerRun == window.completions <= 1


\* Operation c is a successful connect and the connection it opened is
\* still open at operation w.
OpenFrom(c, w) ==
    /\ c < w
    /\ ops[c].op = "connect" /\ ops[c].ok
    /\ \A k \in (c + 1)..(w - 1) : ops[k].op \notin {"connect", "disconnect"}

\* C30: at any instant a run has at most one connection open.  In Restore
\* mode the connection of the telemetry read is closed before the exchange
\* request is made, the subscription and the write use a second connection
\* opened after the exchange request, and no connection is open while the
\* exchange request is in progress.
C30_OneConnectionAtATime ==
    /\ \A k \in 0..Len(ops) : OpenAfter(k) \in {0, 1}
    /\ (client = "open") <=> (OpenAfter(Len(ops)) = 1)
    /\ pc \in {"get_data", "init_data"} => client = "closed"
    /\ \A e \in ExchangeIdx : OpenAfter(e) = 0
    /\ \A r \in OpIdx("read") \cup OpIdx("get_services") :
         /\ \E c \in 1..(r - 1) : OpenFrom(c, r)
         /\ \A e \in ExchangeIdx :
              /\ r < e
              /\ \E d \in (r + 1)..(e - 1) : ops[d].op = "disconnect"
    /\ \A w \in OpIdx("start_notify") \cup OpIdx("write") :
         \E c \in 1..(w - 1) :
            /\ OpenFrom(c, w)
            /\ \A e \in ExchangeIdx : e < c
            /\ \A r \in OpIdx("read") \cup OpIdx("get_services") : r < c

\* A Restore run that read on one connection, made the exchange request
\* with no connection open and wrote on a second connection.
C30_Witness ==
    /\ mode = "1"
    /\ Cardinality({c \in OpIdx("connect") : ops[c].ok}) = 2
    /\ \E r \in OpIdx("read"), e \in OpIdx("apigetdata"), w \in OpIdx("write") :
         r < e /\ e < w /\ ops[w].ok
    /\ RunSucceeded


IsProgress(e) == e.kind = "progress"

\* The progress values the run has emitted, in order.
ProgressValues == [k \in DOMAIN SelectSeq(events, IsProgress) |->
                      SelectSeq(events, IsProgress)[k].num]

\* The place in events of the progress value n.
ProgressIdx(n) == { i \in 1..Len(events) : IsProgress(events[i]) /\ events[i].num = n }

\* C31: the progress values a run emits are 20, 40, 60, 80, 100 in this
\* order, up to some point (a strictly increasing prefix, all within
\* 0..100); 100 is emitted if and only if the run succeeds, directly before
\* the success signal; 80 is emitted only after the exchange returned a
\* non-empty command.
C31_ProgressPrefix ==
    /\ Len(ProgressValues) <= 5
    /\ \A k \in 1..Len(ProgressValues) :
         /\ ProgressValues[k] = 20 * k
         /\ ProgressValues[k] \in 0..100
         /\ k > 1 => ProgressValues[k - 1] < ProgressValues[k]
    /\ pc /= "start" => ProgressIdx(20) /= {}
    /\ (ProgressIdx(100) /= {}) <=> ReportedSuccess
    /\ \A i \in ProgressIdx(100) :
         i < Len(events) /\ events[i + 1].kind = "finished" /\ events[i + 1].ok
    /\ \A i \in FinishedIdx :
         events[i].ok => (i > 1 /\ IsProgress(events[i - 1]) /\ events[i - 1].num = 100)
    /\ ProgressIdx(80) /= {} =>
         /\ ExchangeIdx /= {}
         /\ response /= None /\ ~response[1].raised
         /\ response[1].status = 200 /\ response[1].text /= <<>>
         /\ result = Some(response[1].text)
    /\ (pc \notin {"start", "scanning", "read_connecting", "getting_services",
                   "reading", "get_data", "init_data"} /\ Truthy(result))
         => ProgressIdx(80) /= {}

\* A run that got a command, emitted 80 and then failed: its progress
\* values stop at 80.
C31_Witness ==
    /\ RunFailed
    /\ ProgressValues = <<20, 40, 60, 80>>
    /\ \E i \in OpIdx("write") : ~ops[i].ok


\* Exactly one of the two buttons is enabled.
OneButton == window.start_button /= window.stop_button

\* A run has been started and operation_finished has not run since.
BetweenStartAndFinished == window.workers > 0 /\ window.completions = 0

\* This step is start_operation turned down for an empty name.
EmptyNameStart == window'.warned /\ ~window.warned

\* C32: in every state of the window exactly one of the start and stop
\* buttons is enabled: stop, from a start_operation that started a worker
\* until operation_finished, and start otherwise.  A start with a name that
\* is empty after trimming creates no worker and leaves the buttons, the
\* progress bar and the status as they were.
C32_OneButtonEnabled ==
    /\ [](OneButton /\ (window.stop_button <=> BetweenStartAndFinished))
    /\ [][EmptyNameStart =>
            /\ window'.workers = window.workers
            /\ window'.start_button = window.start_button
            /\ window'.stop_button = window.stop_button
            /\ window'.progress_visible = window.progress_visible
            /\ window'.status = window.status
            /\ ProgressValue' = ProgressValue
            /\ UNCHANGED <<pc, running, events, ops, client>>]_vars

\* After a run that failed, a click on start with an empty name: the
\* warning was given and the window still shows the failed run.
C32_Witness ==
    /\ window.warned
    /\ window.completions = 1
    /\ window.status = "failed"
    /\ window.start_button /\ ~window.stop_button

=============================================================================
